---------------------------- MODULE Spec2Model ----------------------------
(***************************************************************************)
(* Model of app.py: the SQLite store seeded by init_db, the write path of  *)
(* the "/" route (index, POST), the plot status query lote_estado and the  *)
(* two product reports of /resumen.  The page of GET / and the spreadsheet *)
(* of /export/excel read the store and change nothing; they are left out.  *)
(*                                                                         *)
(* Numbers.  Areas (REAL columns, Python floats) are modelled as exact     *)
(* decimals with two fractional digits, held as integer hundredths of a    *)
(* manzana: 10 manzanas is 1000.  Doses are held in tenths of a litre per  *)
(* manzana, so area * dose is in thousandths of a litre, and ROUND(x, 2)   *)
(* and the "%.2f" format do real work on them.                             *)
(*                                                                         *)
(* Form fields are the strings the request carries; int(), float() and     *)
(* strptime() are modelled by their result on each string of the bounded   *)
(* input sets, a ValueError included.                                      *)
(***************************************************************************)
EXTENDS Integers, Sequences, FiniteSets, TLC

VARIABLES
    db,        \* the SQLite file: one field per table, each a sequence of rows in rowid order
    request,   \* the request handled last: [route, form]
    response,  \* the response to it: [status, category, flash, body]
    pc,        \* concurrent requests: where each worker thread stands in index()
    conn,      \* concurrent requests: each worker's request-local values
    writer     \* concurrent requests: the worker holding SQLite's write lock, or NoWriter

vars == <<db, request, response, pc, conn, writer>>

----------------------------------------------------------------------------
(* Bounds of the model *)

\* Largest number of rows of aplicaciones the model lets the store hold.
MaxApps == 2

(* Units *)

\* Hundredths per manzana: areas carry two decimals.
Scale == 100
\* Doses are held in tenths of a litre.
DoseScale == 10

(* Seed data of init_db *)

NumFincas == 10
LotesPorFinca == 7
FincaAreaTotal == 70
LoteAreaTotal == 10

Absent == "<absent>"
None == [none |-> TRUE]

----------------------------------------------------------------------------
(* Python conversions, by their result on the strings of the input sets *)

\* int(s)
PyInt(s) ==
    CASE s = "1"  -> [ok |-> TRUE, v |-> 1]
      [] s = "2"  -> [ok |-> TRUE, v |-> 2]
      [] s = "8"  -> [ok |-> TRUE, v |-> 8]
      [] s = "11" -> [ok |-> TRUE, v |-> 11]
      [] s = "71" -> [ok |-> TRUE, v |-> 71]
      [] OTHER    -> [ok |-> FALSE, v |-> 0]

\* float(s), in hundredths; float("nan") is a value that compares false with everything
PyFloat(s) ==
    CASE s = "-1"   -> [ok |-> TRUE, nan |-> FALSE, v |-> -100]
      [] s = "0"    -> [ok |-> TRUE, nan |-> FALSE, v |-> 0]
      [] s = "0.01" -> [ok |-> TRUE, nan |-> FALSE, v |-> 1]
      [] s = "0.03" -> [ok |-> TRUE, nan |-> FALSE, v |-> 3]
      [] s = "4"    -> [ok |-> TRUE, nan |-> FALSE, v |-> 400]
      [] s = "6"    -> [ok |-> TRUE, nan |-> FALSE, v |-> 600]
      [] s = "10"   -> [ok |-> TRUE, nan |-> FALSE, v |-> 1000]
      [] s = "11"   -> [ok |-> TRUE, nan |-> FALSE, v |-> 1100]
      [] s = "nan"  -> [ok |-> TRUE, nan |-> TRUE, v |-> 0]
      [] OTHER      -> [ok |-> FALSE, nan |-> FALSE, v |-> 0]

\* datetime.strptime(s, "%Y-%m-%d").date().isoformat(): the stored text, or a ValueError
PyStrptimeIso(s) ==
    CASE s = "2026-01-10" -> [ok |-> TRUE, iso |-> "2026-01-10"]
      [] s = "2026-1-5"   -> [ok |-> TRUE, iso |-> "2026-01-05"]
      [] OTHER            -> [ok |-> FALSE, iso |-> ""]

\* Two decimal digits of a fraction in hundredths
TwoDigits(n) == IF n < 10 THEN "0" \o ToString(n) ELSE ToString(n)

Abs(x) == IF x < 0 THEN -x ELSE x

\* Fmt2f as "%.1f" would print it
Fmt1f(x) ==
    (IF x < 0 THEN "-" ELSE "") \o ToString(Abs(x) \div Scale) \o "." \o ToString((Abs(x) % Scale) \div 10)

\* f"{x:.2f}" of an area in hundredths
Fmt2f(x) ==
    (IF x < 0 THEN "-" ELSE "") \o ToString(Abs(x) \div Scale) \o "." \o TwoDigits(Abs(x) % Scale)

\* f"{x}" of a float (its repr) or of the int 0 of a missing field
PyStr(x, isFloat) ==
    LET a == Abs(x)
        frac == a % Scale
        digits == IF frac = 0 THEN "0"
                  ELSE IF frac % 10 = 0 THEN ToString(frac \div 10)
                  ELSE TwoDigits(frac)
    IN  IF ~isFloat THEN ToString(x)
        ELSE (IF x < 0 THEN "-" ELSE "") \o ToString(a \div Scale) \o "." \o digits

----------------------------------------------------------------------------
(* The store *)

EmptyDb ==
    [fincas |-> <<>>, lotes |-> <<>>, mezclas |-> <<>>,
     mezcla_productos |-> <<>>, aplicaciones |-> <<>>]

\* The seven INSERTs into lotes of one finca, in loop order
SeedLotes(finca_id, firstId) ==
    [k \in 1..LotesPorFinca |->
        [id |-> firstId + k - 1, finca_id |-> finca_id,
         nombre |-> "Lote " \o ToString(k), area_total |-> LoteAreaTotal * Scale]]

RECURSIVE SeedFincas(_, _)
\* The loop over finca_num of init_db, from finca_num on, on store d
SeedFincas(d, finca_num) ==
    IF finca_num > NumFincas THEN d
    ELSE LET finca_id == Len(d.fincas) + 1
             d1 == [d EXCEPT !.fincas = Append(@,
                        [id |-> finca_id, nombre |-> "Finca " \o ToString(finca_num),
                         area_total |-> FincaAreaTotal * Scale])]
             d2 == [d1 EXCEPT !.lotes = @ \o SeedLotes(finca_id, Len(@) + 1)]
         IN  SeedFincas(d2, finca_num + 1)

SeedMezclas(d) ==
    LET mezcla_id == Len(d.mezclas) + 1
        n == Len(d.mezcla_productos)
    IN  [d EXCEPT
            !.mezclas = Append(@, [id |-> mezcla_id, nombre |-> "Mezcla 1"]),
            !.mezcla_productos = @ \o
                <<[id |-> n + 1, mezcla_id |-> mezcla_id, producto |-> "Producto A", dosis |-> 15],
                  [id |-> n + 2, mezcla_id |-> mezcla_id, producto |-> "Producto B", dosis |-> 20],
                  [id |-> n + 3, mezcla_id |-> mezcla_id, producto |-> "Producto C", dosis |-> 5]>>]

\* init_db without its emptiness checks: every call seeds
init_dbSiempre(d) == SeedMezclas(SeedFincas(d, 1))

\* init_db: the tables exist; fincas and lotes are seeded when fincas is empty,
\* the mixture when mezclas is empty
init_db(d) ==
    LET d1 == IF Len(d.fincas) = 0 THEN SeedFincas(d, 1) ELSE d
    IN  IF Len(d1.mezclas) = 0 THEN SeedMezclas(d1) ELSE d1

\* The elements of a sequence
Range(s) == {s[i] : i \in DOMAIN s}

RECURSIVE SumManzanas(_, _)
\* SUM(a.manzanas_aplicadas) over the rows of aplicaciones with a.lote_id = lote_id
SumManzanas(apps, lote_id) ==
    IF apps = <<>> THEN 0
    ELSE (IF Head(apps).lote_id = lote_id THEN Head(apps).manzanas_aplicadas ELSE 0)
         + SumManzanas(Tail(apps), lote_id)

\* lote_estado without the LEFT JOIN: nothing counts as applied
lote_estadoSinAplicaciones(d, lote_id) ==
    LET ls == {l \in Range(d.lotes) : l.id = lote_id}
    IN  IF ls = {} THEN None
        ELSE LET l == CHOOSE l \in ls : TRUE
             IN  [none |-> FALSE, area_total |-> l.area_total, aplicadas |-> 0,
                  restante |-> l.area_total]

\* lote_estado: the row of the plot with its applied and remaining area; None when
\* no plot has this id (fetchone() of an empty result)
lote_estado(d, lote_id) ==
    LET ls == {l \in Range(d.lotes) : l.id = lote_id}
    IN  IF ls = {} THEN None
        ELSE LET l == CHOOSE l \in ls : TRUE
                 aplicadas == SumManzanas(d.aplicaciones, lote_id)
             IN  [none |-> FALSE, area_total |-> l.area_total, aplicadas |-> aplicadas,
                  restante |-> l.area_total - aplicadas]

----------------------------------------------------------------------------
(* The "/" route, POST *)

\* The flashed messages (accents dropped)
FlashFechaInvalida == "La fecha no tiene un formato valido."
FlashAreaInvalida == "Las manzanas aplicadas deben ser mayores que 0."
FlashGuardada == "Aplicacion guardada correctamente."

\* f"No se pueden aplicar {manzanas} manzanas. Solo faltan {restante:.2f} en este lote."
FlashAreaExcedida(m, restante) ==
    "No se pueden aplicar " \o PyStr(m.v, m.isFloat)
        \o " manzanas. Solo faltan " \o Fmt2f(restante) \o " en este lote."

Redirect(category, flash, finca_id, lote_id) ==
    [status |-> 302, category |-> category, flash |-> flash, error |-> "",
     body |-> <<finca_id, lote_id>>]

\* An exception no handler catches: Flask answers 500 and the connection is closed
\* without a commit
ServerError(exc) ==
    [status |-> 500, category |-> "", flash |-> "", error |-> exc, body |-> <<>>]

\* request.form["mezcla_id"] of a form without the field
BadRequest ==
    [status |-> 400, category |-> "", flash |-> "", error |-> "BadRequestKeyError", body |-> <<>>]

Ok(body) ==
    [status |-> 200, category |-> "", flash |-> "", error |-> "", body |-> body]

\* form.get(name) is falsy: the field is missing or empty
Falsy(s) == s = Absent \/ s = ""

\* SELECT id, nombre, area_total FROM lotes WHERE finca_id = ? ORDER BY id
LotesDeFinca(d, finca_id) == SelectSeq(d.lotes, LAMBDA l : l.finca_id = finca_id)

\* index() up to the date check: the selected ids, the parsed form values and the
\* parsed date, or the response that ends the request early
ParseForm(d, form) ==
    LET finca == IF Falsy(form.finca_id) THEN [ok |-> TRUE, v |-> d.fincas[1].id]
                 ELSE PyInt(form.finca_id)
    IN  IF ~finca.ok THEN [done |-> TRUE, response |-> ServerError("ValueError")] ELSE
    LET lotes == LotesDeFinca(d, finca.v)
    IN  IF Falsy(form.lote_id) /\ lotes = <<>>
        THEN [done |-> TRUE, response |-> ServerError("IndexError")] ELSE
    LET lote == IF Falsy(form.lote_id) THEN [ok |-> TRUE, v |-> lotes[1].id]
                ELSE PyInt(form.lote_id)
    IN  IF ~lote.ok THEN [done |-> TRUE, response |-> ServerError("ValueError")] ELSE
        IF form.mezcla_id = Absent THEN [done |-> TRUE, response |-> BadRequest] ELSE
    LET mezcla == PyInt(form.mezcla_id)
    IN  IF ~mezcla.ok THEN [done |-> TRUE, response |-> ServerError("ValueError")] ELSE
    LET manzanas == IF Falsy(form.manzanas)
                    THEN [ok |-> TRUE, nan |-> FALSE, v |-> 0, isFloat |-> FALSE]
                    ELSE [ok |-> PyFloat(form.manzanas).ok, nan |-> PyFloat(form.manzanas).nan,
                          v |-> PyFloat(form.manzanas).v, isFloat |-> TRUE]
    IN  IF ~manzanas.ok THEN [done |-> TRUE, response |-> ServerError("ValueError")] ELSE
    LET fecha == PyStrptimeIso(IF form.fecha = Absent THEN "" ELSE form.fecha)
    IN  IF ~fecha.ok
        THEN [done |-> TRUE,
              response |-> Redirect("error", FlashFechaInvalida,
                                    finca.v, lote.v)]
        ELSE [done |-> FALSE, finca_id |-> finca.v, lote_id |-> lote.v,
              mezcla_id |-> mezcla.v, manzanas |-> manzanas, fecha |-> fecha.iso]

\* LeZero as manzanas < 0, GtRestante as manzanas >= restante
LtZero(m) == ~m.nan /\ m.v < 0
GeRestante(m, restante) == ~m.nan /\ m.v >= restante

\* manzanas <= 0 and manzanas > restante of Python floats: false when manzanas is NaN
LeZero(m) == ~m.nan /\ m.v <= 0
GtRestante(m, restante) == ~m.nan /\ m.v > restante

\* The if / elif / else on manzanas and restante: the flash of a rejection, or "insert"
CheckArea(p, restante) ==
    IF LeZero(p.manzanas)
    THEN [insert |-> FALSE,
          response |-> Redirect("error", FlashAreaInvalida,
                                p.finca_id, p.lote_id)]
    ELSE IF GtRestante(p.manzanas, restante)
    THEN [insert |-> FALSE,
          response |-> Redirect("error", FlashAreaExcedida(p.manzanas, restante),
                                p.finca_id, p.lote_id)]
    ELSE [insert |-> TRUE,
          response |-> Redirect("success", FlashGuardada,
                                p.finca_id, p.lote_id)]

\* The INSERT INTO aplicaciones: no foreign key is checked (the connection never
\* sets PRAGMA foreign_keys), NOT NULL is (SQLite binds NaN as NULL)
InsertViolatesNotNull(p) == p.manzanas.nan

InsertAplicacion(d, p) ==
    [d EXCEPT !.aplicaciones = Append(@,
        [id |-> Len(@) + 1, fecha |-> p.fecha, finca_id |-> p.finca_id,
         lote_id |-> p.lote_id, mezcla_id |-> p.mezcla_id,
         manzanas_aplicadas |-> p.manzanas.v])]

\* index() for a POST on store d: the store and the response it leaves
IndexPost(d, form) ==
    LET p == ParseForm(d, form)
    IN  IF p.done THEN [db |-> d, response |-> p.response] ELSE
    LET estado == lote_estado(d, p.lote_id)
    IN  IF estado.none THEN [db |-> d, response |-> ServerError("TypeError")] ELSE
    LET c == CheckArea(p, estado.restante)
    IN  IF ~c.insert THEN [db |-> d, response |-> c.response]
        ELSE IF InsertViolatesNotNull(p)
        THEN [db |-> d, response |-> ServerError("IntegrityError")]
        ELSE [db |-> InsertAplicacion(d, p), response |-> c.response]

----------------------------------------------------------------------------
(* The reports of /resumen.  A result set is modelled as the set of its rows: *)
(* the ORDER BY on the product name is not modelled.                          *)

\* Round2 as a truncation to two decimals
Trunc2(x) == IF x >= 0 THEN x \div DoseScale ELSE -((-x) \div DoseScale)

\* ROUND(x, 2) of a quantity in thousandths, in hundredths: SQLite rounds half away from zero
Round2(x) ==
    IF x >= 0 THEN (x + DoseScale \div 2) \div DoseScale
    ELSE -((-x + DoseScale \div 2) \div DoseScale)

\* aplicaciones a JOIN mezcla_productos mp ON mp.mezcla_id = a.mezcla_id
JoinMezclaProductos(d) ==
    UNION {{[a |-> a, mp |-> mp] :
               mp \in {m \in Range(d.mezcla_productos) : m.mezcla_id = a.mezcla_id}} :
           a \in Range(d.aplicaciones)}

\* ... JOIN fincas f ON f.id = a.finca_id JOIN lotes l ON l.id = a.lote_id
JoinFincasLotes(d) ==
    UNION {{[a |-> r.a, mp |-> r.mp, f |-> f, l |-> l] :
               f \in {x \in Range(d.fincas) : x.id = r.a.finca_id},
               l \in {x \in Range(d.lotes) : x.id = r.a.lote_id}} :
           r \in JoinMezclaProductos(d)}

RECURSIVE SumLitros(_)
\* SUM(a.manzanas_aplicadas * mp.dosis_litros_manzana) over joined rows, in thousandths
SumLitros(rows) ==
    IF rows = {} THEN 0
    ELSE LET r == CHOOSE r \in rows : TRUE
         IN  r.a.manzanas_aplicadas * r.mp.dosis + SumLitros(rows \ {r})

\* obtener_totales_producto: GROUP BY mp.producto
obtener_totales_producto(d) ==
    LET j == JoinMezclaProductos(d)
    IN  {[producto |-> p,
          litros_totales |-> Round2(SumLitros({r \in j : r.mp.producto = p}))] :
            p \in {r.mp.producto : r \in j}}

\* obtener_detalle_producto: GROUP BY f.id, l.id, mp.producto
obtener_detalle_producto(d) ==
    LET j == JoinFincasLotes(d)
    IN  {[finca |-> g[1].nombre, lote |-> g[2].nombre, producto |-> g[3],
          finca_id |-> g[1].id, lote_id |-> g[2].id,
          litros_utilizados |->
              Round2(SumLitros({r \in j : r.f = g[1] /\ r.l = g[2] /\ r.mp.producto = g[3]}))] :
            g \in {<<r.f, r.l, r.mp.producto>> : r \in j}}

----------------------------------------------------------------------------
(* The inputs of the model *)

\* Requests on the validation path: the default farm, its first plot, a plot of
\* another farm and a plot id that does not exist
Forms ==
    [fecha : {"2026-01-10", "2026-02-30"}, finca_id : {Absent}, lote_id : {Absent, "8", "71"},
     mezcla_id : {"1"},
     manzanas : {Absent, "-1", "0.01", "4", "6", "10", "11", "nan", "abc"}]

\* Requests that vary the ids: a farm that does not own the plot, a farm and a
\* mixture that do not exist
FormsRefs ==
    [fecha : {"2026-01-10"}, finca_id : {Absent, "2", "11"}, lote_id : {Absent, "1"},
     mezcla_id : {"1", "2"}, manzanas : {"0.01", "6"}]

\* Requests that record small and large areas on the first plots of two farms, every
\* id naming an existing row and the plot one of the farm
FormsResumen ==
    [fecha : {"2026-01-10"}, finca_id : {Absent, "2"}, lote_id : {Absent},
     mezcla_id : {"1"}, manzanas : {"0.01", "0.03", "4", "6"}]

\* The plot ids asked of /api/lote_estado
LoteIds == {1, 8, 71}

NoForm ==
    [fecha |-> Absent, finca_id |-> Absent, lote_id |-> Absent,
     mezcla_id |-> Absent, manzanas |-> Absent]

NoResponse ==
    [status |-> 0, category |-> "", flash |-> "", error |-> "", body |-> <<>>]

\* The worker threads of the server, and the request-local values of one that is idle
Workers == {"w1", "w2"}
NoWriter == "none"
NoConn == [p |-> [done |-> TRUE], restante |-> 0]

----------------------------------------------------------------------------
(* Requests handled one at a time *)

Init ==
    /\ db = EmptyDb
    /\ request = [route |-> "", form |-> NoForm]
    /\ response = NoResponse
    /\ pc = [w \in Workers |-> "idle"]
    /\ conn = [w \in Workers |-> NoConn]
    /\ writer = NoWriter

\* init_db called on its own (the tests call it before the first request)
InitDb ==
    /\ db' = init_db(db)
    /\ request' = [route |-> "init_db", form |-> NoForm]
    /\ response' = NoResponse
    /\ UNCHANGED <<pc, conn, writer>>

\* POST /: _ensure_db, then index()
Post(form) ==
    LET r == IndexPost(init_db(db), form)
    IN  /\ Len(r.db.aplicaciones) <= MaxApps
        /\ db' = r.db
        /\ request' = [route |-> "POST /", form |-> form]
        /\ response' = r.response
        /\ UNCHANGED <<pc, conn, writer>>

\* GET /api/lote_estado/<lote_id>: _ensure_db, then api_lote_estado()
ApiLoteEstado(lote_id) ==
    LET d == init_db(db)
        estado == lote_estado(d, lote_id)
    IN  /\ db' = d
        /\ request' = [route |-> "GET /api/lote_estado", form |-> [NoForm EXCEPT !.lote_id = ToString(lote_id)]]
        /\ response' = IF estado.none THEN ServerError("TypeError")
                       ELSE Ok([area_total |-> estado.area_total,
                                aplicadas |-> estado.aplicadas,
                                restante |-> estado.restante])
        /\ UNCHANGED <<pc, conn, writer>>

\* GET /resumen: _ensure_db, then resumen()
Resumen ==
    LET d == init_db(db)
    IN  /\ db' = d
        /\ request' = [route |-> "GET /resumen", form |-> NoForm]
        /\ response' = Ok([detalle |-> obtener_detalle_producto(d),
                           totales |-> obtener_totales_producto(d)])
        /\ UNCHANGED <<pc, conn, writer>>

Next ==
    \/ InitDb
    \/ \E form \in Forms : Post(form)
    \/ \E lote_id \in LoteIds : ApiLoteEstado(lote_id)
    \/ Resumen

Spec == Init /\ [][Next]_vars

NextRefs ==
    \/ InitDb
    \/ \E form \in FormsRefs : Post(form)
    \/ \E lote_id \in LoteIds : ApiLoteEstado(lote_id)
    \/ Resumen

SpecRefs == Init /\ [][NextRefs]_vars

NextResumen ==
    \/ InitDb
    \/ \E form \in FormsResumen : Post(form)
    \/ \E lote_id \in LoteIds : ApiLoteEstado(lote_id)
    \/ Resumen

SpecResumen == Init /\ [][NextResumen]_vars

----------------------------------------------------------------------------
(* Requests handled by two worker threads at once, each on its own connection.  *)
(* A POST on "/" takes four steps: the plot status is read, the area is         *)
(* compared with the remaining area, the row is inserted (the connection takes  *)
(* SQLite's write lock) and the transaction is committed.  Nothing holds the    *)
(* store between the read and the insert.                                       *)

\* Requests of the concurrent runs: the first plot of the first farm or a plot that does not exist
FormsConc ==
    [fecha : {"2026-01-10", "2026-02-30"}, finca_id : {Absent}, lote_id : {Absent, "71"},
     mezcla_id : {"1"}, manzanas : {"-1", "4", "6", "10", "nan"}]

\* _ensure_db, then index() up to the date check
ConcBegin(w, form) ==
    LET d == init_db(db)
        p == ParseForm(d, form)
    IN  /\ pc[w] = "idle"
        /\ db' = d
        /\ request' = [route |-> "POST /", form |-> form]
        /\ IF p.done
           THEN /\ response' = p.response
                /\ UNCHANGED <<pc, conn>>
           ELSE /\ pc' = [pc EXCEPT ![w] = "estado"]
                /\ conn' = [conn EXCEPT ![w] = [p |-> p, restante |-> 0]]
                /\ UNCHANGED response
        /\ UNCHANGED writer

\* estado = lote_estado(db, selected_lote_id); restante = estado["restante"]
ConcEstado(w) ==
    LET estado == lote_estado(db, conn[w].p.lote_id)
    IN  /\ pc[w] = "estado"
        /\ IF estado.none
           THEN /\ response' = ServerError("TypeError")
                /\ pc' = [pc EXCEPT ![w] = "idle"]
                /\ conn' = [conn EXCEPT ![w] = NoConn]
           ELSE /\ pc' = [pc EXCEPT ![w] = "comparar"]
                /\ conn' = [conn EXCEPT ![w].restante = estado.restante]
                /\ UNCHANGED response
        /\ UNCHANGED <<db, request, writer>>

\* The if / elif on manzanas and restante
ConcComparar(w) ==
    LET c == CheckArea(conn[w].p, conn[w].restante)
    IN  /\ pc[w] = "comparar"
        /\ IF c.insert
           THEN /\ pc' = [pc EXCEPT ![w] = "insert"]
                /\ UNCHANGED <<response, conn>>
           ELSE /\ response' = c.response
                /\ pc' = [pc EXCEPT ![w] = "idle"]
                /\ conn' = [conn EXCEPT ![w] = NoConn]
        /\ UNCHANGED <<db, request, writer>>

\* db.execute("INSERT ..."): the row waits in the connection's transaction, which
\* holds the write lock
ConcInsert(w) ==
    /\ pc[w] = "insert"
    /\ writer = NoWriter
    /\ Len(db.aplicaciones) < MaxApps
    /\ IF InsertViolatesNotNull(conn[w].p)
       THEN /\ response' = ServerError("IntegrityError")
            /\ pc' = [pc EXCEPT ![w] = "idle"]
            /\ conn' = [conn EXCEPT ![w] = NoConn]
            /\ UNCHANGED writer
       ELSE /\ pc' = [pc EXCEPT ![w] = "commit"]
            /\ writer' = w
            /\ UNCHANGED <<response, conn>>
    /\ UNCHANGED <<db, request>>

\* The INSERT of a connection that finds the write lock taken for longer than
\* sqlite3's busy timeout: OperationalError
ConcLocked(w) ==
    /\ pc[w] = "insert"
    /\ writer # NoWriter
    /\ response' = ServerError("OperationalError")
    /\ pc' = [pc EXCEPT ![w] = "idle"]
    /\ conn' = [conn EXCEPT ![w] = NoConn]
    /\ UNCHANGED <<db, request, writer>>

\* db.commit(), the flash and the redirect
ConcCommit(w) ==
    /\ pc[w] = "commit"
    /\ writer = w
    /\ db' = InsertAplicacion(db, conn[w].p)
    /\ writer' = NoWriter
    /\ response' = CheckArea(conn[w].p, conn[w].restante).response
    /\ pc' = [pc EXCEPT ![w] = "idle"]
    /\ conn' = [conn EXCEPT ![w] = NoConn]
    /\ UNCHANGED request

NextConc ==
    \E w \in Workers :
        \/ \E form \in FormsConc : ConcBegin(w, form)
        \/ ConcEstado(w)
        \/ ConcComparar(w)
        \/ ConcInsert(w)
        \/ ConcLocked(w)
        \/ ConcCommit(w)

SpecConc == Init /\ [][NextConc]_vars

----------------------------------------------------------------------------
(* What the properties below speak of *)

\* The farm and the plot a form selects on store d
FincaPedida(d, form) ==
    IF Falsy(form.finca_id) THEN d.fincas[1].id ELSE PyInt(form.finca_id).v

LotePedido(d, form) ==
    IF Falsy(form.lote_id)
    THEN LET ids == {l.id : l \in {x \in Range(d.lotes) : x.finca_id = FincaPedida(d, form)}}
         IN  CHOOSE i \in ids : \A j \in ids : i <= j
    ELSE PyInt(form.lote_id).v

\* Every field of the form converts: the ids are integers, the area is a number or missing
BienFormado(d, form) ==
    /\ Falsy(form.finca_id) \/ PyInt(form.finca_id).ok
    /\ IF Falsy(form.lote_id)
       THEN \E l \in Range(d.lotes) : l.finca_id = FincaPedida(d, form)
       ELSE PyInt(form.lote_id).ok
    /\ form.mezcla_id # Absent /\ PyInt(form.mezcla_id).ok
    /\ Falsy(form.manzanas) \/ (PyFloat(form.manzanas).ok /\ ~PyFloat(form.manzanas).nan)

FechaValida(form) == form.fecha # Absent /\ PyStrptimeIso(form.fecha).ok

\* The area a form asks to record, in hundredths (a missing or empty field is 0)
AreaPedida(form) == IF Falsy(form.manzanas) THEN 0 ELSE PyFloat(form.manzanas).v

ExisteLote(d, lote_id) == \E l \in Range(d.lotes) : l.id = lote_id

AreaTotal(d, lote_id) == (CHOOSE l \in Range(d.lotes) : l.id = lote_id).area_total

\* The sum of the recorded areas of a plot, row by row from the last one
AreaAplicada(d, lote_id) ==
    LET F[n \in 0..Len(d.aplicaciones)] ==
            IF n = 0 THEN 0
            ELSE F[n - 1] + (IF d.aplicaciones[n].lote_id = lote_id
                             THEN d.aplicaciones[n].manzanas_aplicadas ELSE 0)
    IN  F[Len(d.aplicaciones)]

Restante(d, lote_id) == AreaTotal(d, lote_id) - AreaAplicada(d, lote_id)

Digito(n) ==
    CASE n = 0 -> "0" [] n = 1 -> "1" [] n = 2 -> "2" [] n = 3 -> "3" [] n = 4 -> "4"
      [] n = 5 -> "5" [] n = 6 -> "6" [] n = 7 -> "7" [] n = 8 -> "8" [] n = 9 -> "9"

\* A non-negative amount in hundredths, written with two decimals
DosDecimales(x) ==
    ToString(x \div 100) \o "." \o Digito((x \div 10) % 10) \o Digito(x % 10)

\* The step is a POST on "/" of a form whose fields convert
EsPost == request'.route = "POST /" /\ BienFormado(init_db(db), request'.form)

\* The step stores nothing
NadaGuardado == db'.aplicaciones = db.aplicaciones

----------------------------------------------------------------------------
(* C1: after any sequence of record requests handled one at a time on a freshly *)
(* seeded store, the areas recorded on a plot sum to at most the plot's total   *)
(* area, and lote_estado's remaining area is never negative.                    *)
C1_AreaNuncaExcedida ==
    \A l \in Range(db.lotes) :
        /\ AreaAplicada(db, l.id) <= l.area_total
        /\ lote_estado(db, l.id).restante >= 0

\* A plot filled to its total area by two recordings
C1_LoteLleno ==
    /\ Len(db.aplicaciones) = 2
    /\ \E l \in Range(db.lotes) :
          /\ AreaAplicada(db, l.id) = l.area_total
          /\ \A i \in 1..2 : db.aplicaciones[i].lote_id = l.id

(* C3: a record request with a valid date and an area greater than the plot's   *)
(* remaining area is rejected with the AreaExceeded message, which carries the  *)
(* remaining area before the request with two decimals ("Solo faltan 10.00 en   *)
(* este lote" for 11 on a fresh plot of area 10), and stores nothing.           *)
C3_ExcedidaRechazada ==
    [][LET d == init_db(db)
           f == request'.form
       IN  (/\ EsPost
            /\ FechaValida(f)
            /\ ExisteLote(d, LotePedido(d, f))
            /\ AreaPedida(f) > Restante(d, LotePedido(d, f)))
           => /\ response'.category = "error"
              /\ response'.flash =
                    "No se pueden aplicar " \o PyStr(AreaPedida(f), TRUE)
                        \o " manzanas. Solo faltan "
                        \o DosDecimales(Restante(d, LotePedido(d, f))) \o " en este lote."
              /\ (f.manzanas = "11" /\ AreaAplicada(d, LotePedido(d, f)) = 0)
                    => response'.flash =
                          "No se pueden aplicar 11.0 manzanas. Solo faltan 10.00 en este lote."
              /\ NadaGuardado
              /\ AreaAplicada(db', LotePedido(d, f)) = AreaAplicada(d, LotePedido(d, f))
      ]_vars

\* 6 asked of a plot with 4 left
C3_RechazoConResto ==
    /\ request.route = "POST /"
    /\ request.form.manzanas = "6"
    /\ response.flash = "No se pueden aplicar 6.0 manzanas. Solo faltan 4.00 en este lote."
    /\ \E l \in Range(db.lotes) : AreaAplicada(db, l.id) = 600


C5_IgualdadUnaVez ==
    /\ [][LET d == init_db(db)
              f == request'.form
              lote == LotePedido(d, f)
          IN  (EsPost /\ FechaValida(f) /\ ExisteLote(d, lote) /\ AreaPedida(f) > 0)
              => /\ AreaPedida(f) = Restante(d, lote)
                    => /\ response'.category = "success"
                       /\ response'.flash = FlashGuardada
                       /\ Len(db'.aplicaciones) = Len(d.aplicaciones) + 1
                       /\ SubSeq(db'.aplicaciones, 1, Len(d.aplicaciones)) = d.aplicaciones
                       /\ db'.aplicaciones[Len(db'.aplicaciones)].lote_id = lote
                       /\ db'.aplicaciones[Len(db'.aplicaciones)].manzanas_aplicadas = AreaPedida(f)
                       /\ Restante(db', lote) = 0
                       /\ lote_estado(db', lote).restante = 0
                 /\ Restante(d, lote) = 0
                    => /\ response'.category = "error"
                       /\ response'.flash =
                             "No se pueden aplicar " \o PyStr(AreaPedida(f), TRUE)
                                 \o " manzanas. Solo faltan 0.00 en este lote."
                       /\ NadaGuardado
         ]_vars
    /\ [][\A lote \in {a.lote_id : a \in Range(db.aplicaciones)} :
              Restante(db, lote) = 0 => Restante(db', lote) = 0]_vars

\* 10 recorded on the fresh first plot, then 0.01 rejected
C5_LlenoYRechazado ==
    /\ Len(db.aplicaciones) = 1
    /\ db.aplicaciones[1].manzanas_aplicadas = 1000
    /\ db.aplicaciones[1].lote_id = 1
    /\ request.route = "POST /"
    /\ request.form.manzanas = "0.01"
    /\ request.form.lote_id = Absent
    /\ response.flash = "No se pueden aplicar 0.01 manzanas. Solo faltan 0.00 en este lote."

(* C6: the Recorder validates in the order date, area > 0, area <= remaining     *)
(* area of the plot status, insert; the outcome of a request is that of the     *)
(* first rule it violates: an invalid date yields InvalidDate whatever the area, *)
(* an area <= 0 yields InvalidArea without depending on the plot status, and a  *)
(* failing request stores nothing.                                              *)
C6_OrdenDeValidacion ==
    [][LET d == init_db(db)
           f == request'.form
       IN  EsPost
           => /\ ~FechaValida(f)
                 => response'.flash = FlashFechaInvalida /\ NadaGuardado
              /\ (FechaValida(f) /\ AreaPedida(f) <= 0)
                 => response'.flash = FlashAreaInvalida /\ NadaGuardado
              /\ (/\ FechaValida(f) /\ AreaPedida(f) > 0
                  /\ ExisteLote(d, LotePedido(d, f))
                  /\ AreaPedida(f) > Restante(d, LotePedido(d, f)))
                 => response'.category = "error" /\ NadaGuardado
      ]_vars

(* C9: the first init_db on an empty store creates 10 farms of area 70, 7 plots *)
(* of area 10 per farm and one mixture with three products of doses 1.5, 2.0    *)
(* and 0.5; every later init_db is a no-op, so that after any sequence of       *)
(* init_db calls and requests the four seeded tables are the seeded ones and    *)
(* init_db leaves the stored applications as they are.                          *)
C9_Sembrado ==
    /\ Len(db.fincas) = 10
    /\ \A i \in 1..10 : db.fincas[i].id = i /\ db.fincas[i].area_total = 70 * 100
    /\ Len(db.lotes) = 70
    /\ \A i \in 1..70 : db.lotes[i].id = i /\ db.lotes[i].area_total = 10 * 100
    /\ \A i \in 1..10 : Cardinality({j \in 1..70 : db.lotes[j].finca_id = i}) = 7
    /\ Len(db.mezclas) = 1
    /\ Len(db.mezcla_productos) = 3
    /\ {<<mp.mezcla_id, mp.producto, mp.dosis>> : mp \in Range(db.mezcla_productos)}
          = {<<db.mezclas[1].id, "Producto A", 15>>, <<db.mezclas[1].id, "Producto B", 20>>,
             <<db.mezclas[1].id, "Producto C", 5>>}

C9_TablasSembradas ==
    <<db.fincas, db.lotes, db.mezclas, db.mezcla_productos>>

C9_SiembraIdempotente ==
    /\ [](db = EmptyDb \/ C9_Sembrado)
    /\ [][/\ db # EmptyDb => C9_TablasSembradas' = C9_TablasSembradas
          /\ request'.route = "init_db"
                => /\ db = EmptyDb => (C9_Sembrado' /\ db'.aplicaciones = <<>>)
                   /\ db # EmptyDb => db' = db
         ]_vars

\* init_db called again on a store that holds applications
C9_ResiembraConAplicaciones ==
    /\ request.route = "init_db"
    /\ Len(db.aplicaciones) = 2
    /\ C9_Sembrado

----------------------------------------------------------------------------
(* The ids a request supplies *)

FincaDelLote(d, lote_id) == (CHOOSE l \in Range(d.lotes) : l.id = lote_id).finca_id

(* C7: every stored application carries the farm of its plot, whatever farm and  *)
(* plot ids the requests supply.                                                *)
C7_FincaEsLaDelLote ==
    \A a \in Range(db.aplicaciones) :
        ExisteLote(db, a.lote_id) /\ a.finca_id = FincaDelLote(db, a.lote_id)

(* C8: the farm, plot and mixture ids of every stored application name existing *)
(* rows: a request naming a farm, plot or mixture that does not exist stores    *)
(* nothing.                                                                     *)
C8_ReferenciasExisten ==
    \A a \in Range(db.aplicaciones) :
        /\ \E f \in Range(db.fincas) : f.id = a.finca_id
        /\ \E l \in Range(db.lotes) : l.id = a.lote_id
        /\ \E m \in Range(db.mezclas) : m.id = a.mezcla_id

----------------------------------------------------------------------------
(* The reports *)

\* The dose of product p in a mixture, in tenths of a litre; 0 when the mixture lacks it
DosisDe(d, mezcla_id, p) ==
    LET rows == {mp \in Range(d.mezcla_productos) : mp.mezcla_id = mezcla_id /\ mp.producto = p}
    IN  IF rows = {} THEN 0 ELSE (CHOOSE mp \in rows : TRUE).dosis

\* The litres of product p, in thousandths, used by the applications that Cuenta keeps
LitrosExactos(d, p, Cuenta(_)) ==
    LET F[n \in 0..Len(d.aplicaciones)] ==
            IF n = 0 THEN 0
            ELSE F[n - 1] + (IF Cuenta(d.aplicaciones[n])
                             THEN d.aplicaciones[n].manzanas_aplicadas
                                      * DosisDe(d, d.aplicaciones[n].mezcla_id, p)
                             ELSE 0)
    IN  F[Len(d.aplicaciones)]

\* Some application that Cuenta keeps uses a mixture with product p
UsaProducto(d, p, Cuenta(_)) ==
    \E a \in Range(d.aplicaciones) :
        /\ Cuenta(a)
        /\ \E mp \in Range(d.mezcla_productos) : mp.mezcla_id = a.mezcla_id /\ mp.producto = p

\* l, in hundredths, is e, in thousandths, rounded to two decimals (a half goes up)
EsRedondeo(l, e) == e - 5 < 10 * l /\ 10 * l <= e + 5

Productos(d) == {mp.producto : mp \in Range(d.mezcla_productos)}

Todas(a) == TRUE

RECURSIVE SumaDetalle(_)
SumaDetalle(rows) ==
    IF rows = {} THEN 0
    ELSE LET r == CHOOSE r \in rows : TRUE
         IN  r.litros_utilizados + SumaDetalle(rows \ {r})

\* Totals has one row per product in use, with the rounded litres of all applications
TotalesCorrectos(d, totales) ==
    /\ \A p \in Productos(d) :
          LET rows == {r \in totales : r.producto = p}
          IN  IF UsaProducto(d, p, Todas)
              THEN /\ Cardinality(rows) = 1
                   /\ \A r \in rows : EsRedondeo(r.litros_totales, LitrosExactos(d, p, Todas))
              ELSE rows = {}
    /\ \A r \in totales : r.producto \in Productos(d)

\* Detail has one row per farm, plot and product in use, with the rounded litres of
\* the applications of that farm and plot
DetalleCorrecto(d, detalle) ==
    /\ \A f \in Range(d.fincas), l \in Range(d.lotes), p \in Productos(d) :
          LET rows == {r \in detalle : r.finca_id = f.id /\ r.lote_id = l.id /\ r.producto = p}
              Cuenta(a) == a.finca_id = f.id /\ a.lote_id = l.id
          IN  IF UsaProducto(d, p, Cuenta)
              THEN /\ Cardinality(rows) = 1
                   /\ \A r \in rows :
                         /\ EsRedondeo(r.litros_utilizados, LitrosExactos(d, p, Cuenta))
                         /\ r.finca = f.nombre /\ r.lote = l.nombre
              ELSE rows = {}
    /\ \A r \in detalle :
          /\ r.producto \in Productos(d)
          /\ \E f \in Range(d.fincas) : f.id = r.finca_id
          /\ \E l \in Range(d.lotes) : l.id = r.lote_id

\* 6 recorded with the default mixture alone: 9.00 litres of Producto A
EjemploSeis(d, totales) ==
    (/\ Len(d.aplicaciones) = 1
     /\ d.aplicaciones[1].manzanas_aplicadas = 600
     /\ d.aplicaciones[1].mezcla_id = 1)
        => [producto |-> "Producto A", litros_totales |-> 900] \in totales

(* C10 as stated: Totals has one row per product with the rounded sum of area *  *)
(* dose over all applications, Detail one row per (farm, plot, product) with    *)
(* the sum of that farm and plot, and each product's Totals figure equals the   *)
(* sum of its Detail figures.                                                   *)
C10_TotalesSumanDetalle ==
    request.route = "GET /resumen"
        => /\ TotalesCorrectos(db, response.body.totales)
           /\ DetalleCorrecto(db, response.body.detalle)
           /\ EjemploSeis(db, response.body.totales)
           /\ \A t \in response.body.totales :
                 t.litros_totales
                     = SumaDetalle({r \in response.body.detalle : r.producto = t.producto})

(* C10, amended: Totals and Detail are as stated, and 6 recorded alone gives    *)
(* 9.00 of Producto A; but a product's Totals figure equals the sum of its      *)
(* Detail figures only up to the rounding of each figure (0.005 per figure) and *)
(* only over the applications whose farm exists: an application whose farm id   *)
(* names no farm counts in Totals and in no Detail row.                         *)
C10_TotalesYDetalle ==
    request.route = "GET /resumen"
        => /\ TotalesCorrectos(db, response.body.totales)
           /\ DetalleCorrecto(db, response.body.detalle)
           /\ EjemploSeis(db, response.body.totales)
           /\ \A t \in response.body.totales :
                 LET rows == {r \in response.body.detalle : r.producto = t.producto}
                     SinFinca(a) == \A f \in Range(db.fincas) : f.id # a.finca_id
                     fuera == LitrosExactos(db, t.producto, SinFinca)
                 IN  Abs(10 * t.litros_totales - (10 * SumaDetalle(rows) + fuera))
                         <= 5 * (Cardinality(rows) + 1)

\* /resumen after 0.01 was recorded on two plots: 0.01 of Producto C in all, 0.01 on each plot
C10_ResumenRedondeado ==
    /\ request.route = "GET /resumen"
    /\ Len(db.aplicaciones) = 2
    /\ [producto |-> "Producto C", litros_totales |-> 1] \in response.body.totales
    /\ Cardinality({r \in response.body.detalle :
                       r.producto = "Producto C" /\ r.litros_utilizados = 1}) = 2

(* C2: two record requests on the same plot, interleaved at the steps read the  *)
(* plot status, compare, insert, commit, never both pass the remaining-area     *)
(* check and leave the plot with more area recorded than its total area.        *)
C2_SinSobrepaso ==
    \A l \in Range(db.lotes) : AreaAplicada(db, l.id) <= l.area_total

=============================================================================
